---- MODULE Spec2Model ----
(***************************************************************************)
(* tap-zendesk, tap_zendesk/streams.py: the bookmark handling of the       *)
(* streams.  One behaviour follows one stream of the registry through a    *)
(* call of sync(state) and the call that follows it, against the same      *)
(* remote data, the consumer pulling records one at a time and free to     *)
(* stop between two of them.  A second specification, SpecMetadata, calls  *)
(* load_metadata of each stream on a schema.                               *)
(*                                                                         *)
(* Timestamp strings are integers 2*t + f: t is the instant, f the way it  *)
(* is written (0: with the "Z" suffix, 1: without an offset).  Both parse  *)
(* to the same timezone-aware instant.  None is a missing bookmark entry   *)
(* and Malformed a stored value that does not parse.                       *)
(***************************************************************************)
EXTENDS Integers, Sequences, FiniteSets, TLC

VARIABLES
    stream,       \* the key of STREAMS whose sync is called
    state,        \* the bookmark state: state[name][key]
    remote,       \* the remote collection of the stream: timestamp strings, in the order the server returns them
    audit_pages,  \* the remote audit feed: pages of timestamp strings, in the order the reversed generator visits them
    run,          \* which call of sync(state) this is: "none" before the first
    pc,           \* where the generator returned by sync stands
    bookmark,     \* sync's local `bookmark`, the parsed instant
    feed,         \* the records the remote answered the request with
    position,     \* records of `feed` the for loop has taken
    gen,          \* sync's local `audit_generator`
    emitted,      \* records yielded by this call of sync, oldest first
    start,        \* state[name][replication_key] when sync was called
    request,      \* the request this call of sync made to the remote client
    writes,       \* calls of update_bookmark in this call of sync
    log,          \* the finished calls of sync: [start, emitted, outcome]
    schema,       \* the field names of schema['properties'] of the stream
    mdata         \* what load_metadata returned

vars == <<stream, state, remote, audit_pages, run, pc, bookmark, feed, position,
          gen, emitted, start, request, writes, log, schema, mdata>>

(***************************************************************************)
(* Bounds of the model.                                                    *)
(***************************************************************************)
MaxTime == 2        \* instants 0..MaxTime of the records of a collection
MaxLen == 3         \* records of a remote collection
MaxAuditTime == 4   \* instants 0..MaxAuditTime of the audits
MaxPages == 2       \* pages of the audit feed

\* The calls of sync a behaviour follows: a sync, and the sync that resumes it.
Runs == {"first", "resumed"}

(***************************************************************************)
(* Values.                                                                  *)
(***************************************************************************)
None == -1
Malformed == -2

TsStr(t, f) == 2 * t + f

\* singer.utils.strptime_with_tz on a string that parses: the instant, whatever the writing.
strptime_with_tz(s) == s \div 2

Parses(s) == s >= 0

KEY_PROPERTIES == {"id"}

TimestampStreams == {"organizations", "users", "tickets", "ticket-metrics"}
ManualStreams == {"groups", "macros", "ticket-fields", "group-memberships"}
AuditStreams == {"ticket-audits"}
IncrementalStreams == TimestampStreams \cup ManualStreams \cup AuditStreams

FullTableStreams == {"tags"}

STREAMS == IncrementalStreams \cup FullTableStreams

\* The class attribute replication_key; Tags inherits the base class's None.
NoKey == "None"

replication_key(name) ==
    IF name = "ticket-audits" THEN "created_at"
    ELSE IF name \in FullTableStreams THEN NoKey
    ELSE "updated_at"

\* The class attribute replication_method.
replication_method(name) == IF name \in FullTableStreams THEN "FULL_TABLE" ELSE "INCREMENTAL"

\* The class attribute key_properties: Tags overrides it with the empty list.
key_properties(name) == IF name \in FullTableStreams THEN {} ELSE KEY_PROPERTIES

Keys == {"updated_at", "created_at", "cursor_value"}

\* singer.get_bookmark(state, name, key): None when the entry is missing.
singer_get_bookmark(st, name, key) == st[name][key]

\* singer.write_bookmark(state, name, key, value)
singer_write_bookmark(st, name, key, value) == [st EXCEPT ![name][key] = value]

\* Stream.update_bookmark, leaving the state as it is.
update_bookmark_lost(st, name, value) == st

\* Stream.update_bookmark, keeping the later of the stored and the new timestamp.
update_bookmark_max(st, name, value) ==
    LET old == st[name][replication_key(name)]
    IN  IF Parses(old) /\ strptime_with_tz(old) > strptime_with_tz(value)
        THEN st
        ELSE [st EXCEPT ![name][replication_key(name)] = value]

\* Stream.update_bookmark writing the value under the key of every stream that
\* shares the replication key.
update_bookmark_shared(st, name, value) ==
    [n \in DOMAIN st |->
        IF replication_key(n) = replication_key(name)
        THEN [st[n] EXCEPT ![replication_key(name)] = value]
        ELSE st[n]]

\* Stream.update_bookmark
update_bookmark(st, name, value) ==
    singer_write_bookmark(st, name, replication_key(name), value)

\* The stored value Stream.get_bookmark parses.
stored_bookmark(st, name) == singer_get_bookmark(st, name, replication_key(name))

\* Stream.get_bookmark taking whatever is stored.
get_bookmark_lenient(st, name) == FALSE

\* Stream.get_bookmark raising on a missing entry alone, a malformed one read as
\* the earliest instant.
get_bookmark_missing_only(st, name) == stored_bookmark(st, name) = None

\* Stream.get_bookmark raises on a missing or malformed entry.
get_bookmark_fails(st, name) == ~Parses(stored_bookmark(st, name))

\* Stream.get_bookmark
get_bookmark(st, name) == strptime_with_tz(stored_bookmark(st, name))

(***************************************************************************)
(* The remote.                                                              *)
(***************************************************************************)
SeqsUpTo(S, n) == UNION {[1..k -> S] : k \in 0..n}

\* The records of a collection: record i carries the i-th timestamp.
Records(coll) == [i \in 1..Len(coll) |-> [id |-> i, ts |-> coll[i]]]

AtOrAfter(rec, since) == strptime_with_tz(rec.ts) >= since

\* client.<entity>.incremental(start_time): the server filters, and keeps its order.
incremental(coll, start_time) ==
    SelectSeq(Records(coll), LAMBDA rec : AtOrAfter(rec, start_time))

\* client.<entity>(): the whole collection.
collection(coll) == Records(coll)

RECURSIVE Offset(_, _)
Offset(pages, p) == IF p <= 1 THEN 0 ELSE Offset(pages, p - 1) + Len(pages[p - 1])

\* The audits of page p of the feed.
PageRecords(pages, p) ==
    [i \in 1..Len(pages[p]) |-> [id |-> Offset(pages, p) + i, ts |-> pages[p][i]]]

\* The cursor token of page p.
Token(p) == p

NoGen == [page |-> 0, values |-> <<>>, position |-> 0, before_cursor |-> None]

\* The audit generator on page p, once reversed(): the buffered page in the order
\* the reverse pass visits it, nothing of it taken yet.
audits_at(pages, p) ==
    [page |-> p, values |-> PageRecords(pages, p), position |-> 0,
     before_cursor |-> Token(p)]

\* client.tickets.audits(cursor=c): the feed from the page the token c stands for.
audits_cursor(pages, c) == audits_at(pages, CHOOSE p \in 1..Len(pages) : Token(p) = c)

\* client.tickets.audits(): the feed from its beginning.
audits(pages) == audits_at(pages, 1)

\* next(audit_generator) raises StopIteration: the page is used up and no page follows.
gen_exhausted(pages, g) == g.position >= Len(g.values) /\ g.page >= Len(pages)

\* The generator after next(audit_generator): a page used up is replaced by the
\* one that follows, which moves before_cursor.
gen_next(pages, g) ==
    IF g.position < Len(g.values)
    THEN [g EXCEPT !.position = g.position + 1]
    ELSE [page |-> g.page + 1, values |-> PageRecords(pages, g.page + 1),
          position |-> 1, before_cursor |-> Token(g.page + 1)]

\* The audit next(audit_generator) returned, g being the generator after the call.
gen_current(g) == g.values[g.position]

(***************************************************************************)
(* TicketAudits.update_cursor_bookmark                                     *)
(***************************************************************************)
\* update_cursor_bookmark, writing nothing.
update_cursor_bookmark_skipped(st, name, g) == st

update_cursor_bookmark(st, name, g) ==
    LET cursor_advanced == g.before_cursor /= singer_get_bookmark(st, name, "cursor_value")
    IN  IF cursor_advanced
        THEN singer_write_bookmark(st, name, "cursor_value", g.before_cursor)
        ELSE st

(***************************************************************************)
(* The initial states.                                                      *)
(***************************************************************************)
Bookmarks(maxt) == {TsStr(t, f) : t \in 0..maxt, f \in {0, 1}} \cup {None, Malformed}

Collections == SeqsUpTo({TsStr(t, 0) : t \in 0..MaxTime}, MaxLen)

Interval(lo, hi) == [i \in 1..(hi - lo + 1) |-> TsStr(lo + i - 1, 0)]

Pages == {Interval(lo, hi) : lo \in 0..MaxAuditTime, hi \in 0..MaxAuditTime} \ {<<>>}

\* Every audit has its own instant: no two pages share one.
Disjoint(f) ==
    \A p \in 1..Len(f) : \A q \in 1..Len(f) :
        p /= q => {f[p][i] : i \in 1..Len(f[p])} \cap {f[q][i] : i \in 1..Len(f[q])} = {}

AuditFeeds == {f \in SeqsUpTo(Pages, MaxPages) : Len(f) >= 1 /\ Disjoint(f)}

\* The state the run starts from: every stream holds the same stored value b,
\* and ticket-audits the cursor c.
InitState(b, c) ==
    [n \in STREAMS |->
        [k \in Keys |->
            IF k = replication_key(n) THEN b
            ELSE IF k = "cursor_value" /\ n = "ticket-audits" THEN c
            ELSE None]]

InitCommon ==
    /\ run = "none"
    /\ pc = "idle"
    /\ bookmark = 0
    /\ feed = <<>>
    /\ position = 0
    /\ gen = NoGen
    /\ emitted = <<>>
    /\ start = None
    /\ request = [made |-> FALSE, cursor |-> None]
    /\ writes = 0
    /\ log = <<>>

\* No call of load_metadata yet.
NoMetadata ==
    [loaded |-> FALSE, table_key_properties |-> {}, forced_replication_method |-> "",
     inclusion |-> <<>>]

InitNoMetadata ==
    /\ schema = {}
    /\ mdata = NoMetadata

InitCollection ==
    /\ stream \in TimestampStreams \cup ManualStreams
    /\ remote \in Collections
    /\ audit_pages = <<>>
    /\ \E b \in Bookmarks(MaxTime) : state = InitState(b, None)
    /\ InitCommon
    /\ InitNoMetadata

InitAudits ==
    /\ stream \in AuditStreams
    /\ remote = <<>>
    /\ audit_pages \in AuditFeeds
    /\ \E b \in Bookmarks(MaxAuditTime) : state = InitState(b, None)
    /\ InitCommon
    /\ InitNoMetadata

\* Tags: the state holds whatever it holds, under the stream's own name too.
InitTags ==
    /\ stream \in FullTableStreams
    /\ remote \in Collections
    /\ audit_pages = <<>>
    /\ \E b \in Bookmarks(MaxTime), own \in Bookmarks(MaxTime) :
           state = [InitState(b, None) EXCEPT ![stream]["updated_at"] = own]
    /\ InitCommon
    /\ InitNoMetadata

Init == InitCollection \/ InitAudits \/ InitTags

(***************************************************************************)
(* sync(state) is called: a generator is made and none of its code runs.   *)
(***************************************************************************)
Finished == {"done", "failed", "halted"}

Sync ==
    /\ stream \in IncrementalStreams
    /\ \/ pc = "idle" /\ run = "none" /\ run' = "first"
       \/ pc \in Finished /\ run = "first" /\ run' = "resumed"
    /\ pc' = "created"
    /\ log' = IF pc = "idle" THEN log
              ELSE Append(log, [start |-> start, emitted |-> emitted, outcome |-> pc])
    /\ start' = stored_bookmark(state, stream)
    /\ bookmark' = 0
    /\ feed' = <<>>
    /\ position' = 0
    /\ gen' = NoGen
    /\ emitted' = <<>>
    /\ request' = [made |-> FALSE, cursor |-> None]
    /\ writes' = 0
    /\ UNCHANGED <<schema, mdata, stream, state, remote, audit_pages>>

(***************************************************************************)
(* The first next() of any sync: get_bookmark raises on a missing or       *)
(* malformed entry, before anything else is done.                          *)
(***************************************************************************)
BookmarkParseFailure ==
    /\ pc = "created"
    /\ get_bookmark_fails(state, stream)
    /\ pc' = "failed"
    /\ UNCHANGED <<schema, mdata, stream, state, remote, audit_pages, run, bookmark, feed, position,
                   gen, emitted, start, request, writes, log>>

(***************************************************************************)
(* Organizations.sync, Users.sync, Tickets.sync, TicketMetrics.sync        *)
(***************************************************************************)
TimestampSyncStart ==
    /\ pc = "created"
    /\ stream \in TimestampStreams
    /\ ~get_bookmark_fails(state, stream)
    /\ bookmark' = get_bookmark(state, stream)
    /\ feed' = incremental(remote, get_bookmark(state, stream))
    /\ position' = 0
    /\ request' = [made |-> TRUE, cursor |-> None]
    /\ pc' = "loop"
    /\ UNCHANGED <<schema, mdata, stream, state, remote, audit_pages, run, gen, emitted, start,
                   writes, log>>

\* One turn of the for loop: the bookmark is written, then the record is yielded.
TimestampSyncNext ==
    /\ pc \in {"loop", "yielded"}
    /\ stream \in TimestampStreams
    /\ position < Len(feed)
    /\ LET rec == feed[position + 1]
       IN  /\ state' = update_bookmark(state, stream, rec.ts)
           /\ emitted' = Append(emitted, rec)
    /\ position' = position + 1
    /\ writes' = writes + 1
    /\ pc' = "yielded"
    /\ UNCHANGED <<schema, mdata, stream, remote, audit_pages, run, bookmark, feed, gen, start,
                   request, log>>

(***************************************************************************)
(* Groups.sync, Macros.sync, TicketFields.sync, GroupMemberships.sync      *)
(***************************************************************************)
\* The test of the loop body, strict.
manual_filter_strict(rec, since) == strptime_with_tz(rec.ts) > since

\* The test of the loop body: the record is at or after the bookmark read at the start.
manual_filter(rec, since) == strptime_with_tz(rec.ts) >= since

ManualSyncStart ==
    /\ pc = "created"
    /\ stream \in ManualStreams
    /\ ~get_bookmark_fails(state, stream)
    /\ bookmark' = get_bookmark(state, stream)
    /\ feed' = collection(remote)
    /\ position' = 0
    /\ request' = [made |-> TRUE, cursor |-> None]
    /\ pc' = "loop"
    /\ UNCHANGED <<schema, mdata, stream, state, remote, audit_pages, run, gen, emitted, start,
                   writes, log>>

\* The loop body with update_bookmark above the test: a record passed over is
\* written to the bookmark too.
ManualSyncNext_writes_skipped ==
    /\ pc \in {"loop", "yielded"}
    /\ stream \in ManualStreams
    /\ position < Len(feed)
    /\ LET rec == feed[position + 1]
       IN  /\ state' = update_bookmark(state, stream, rec.ts)
           /\ writes' = writes + 1
           /\ IF manual_filter(rec, bookmark)
              THEN emitted' = Append(emitted, rec) /\ pc' = "yielded"
              ELSE emitted' = emitted /\ pc' = "loop"
    /\ position' = position + 1
    /\ UNCHANGED <<schema, mdata, stream, remote, audit_pages, run, bookmark, feed, gen,
                   start, request, log>>

\* One turn of the for loop: a record that passes is written to the bookmark and
\* yielded, another is passed over.
ManualSyncNext ==
    /\ pc \in {"loop", "yielded"}
    /\ stream \in ManualStreams
    /\ position < Len(feed)
    /\ LET rec == feed[position + 1]
       IN  IF manual_filter(rec, bookmark)
           THEN /\ state' = update_bookmark(state, stream, rec.ts)
                /\ emitted' = Append(emitted, rec)
                /\ writes' = writes + 1
                /\ pc' = "yielded"
           ELSE /\ pc' = "loop"
                /\ UNCHANGED <<state, emitted, writes>>
    /\ position' = position + 1
    /\ UNCHANGED <<schema, mdata, stream, remote, audit_pages, run, bookmark, feed, gen, start,
                   request, log>>

\* The for loop of a collection stream ends: the feed is used up.
CollectionSyncDone ==
    /\ pc \in {"loop", "yielded"}
    /\ stream \in TimestampStreams \cup ManualStreams
    /\ position >= Len(feed)
    /\ pc' = "done"
    /\ UNCHANGED <<schema, mdata, stream, state, remote, audit_pages, run, bookmark, feed, position,
                   gen, emitted, start, request, writes, log>>

(***************************************************************************)
(* TicketAudits.sync and TicketAudits.advance_cursor                       *)
(***************************************************************************)
\* The test of advance_cursor, passing over an audit at the bookmark too.
advance_cursor_older_or_equal(audit, since) == strptime_with_tz(audit.ts) <= since

\* The test of advance_cursor: the audit is older than the bookmark.
advance_cursor_older(audit, since) == strptime_with_tz(audit.ts) < since

\* advance_cursor without the step back.
advance_cursor_no_rewind(g) == g

\* advance_cursor stepping two slots back where the page has them.
advance_cursor_rewind_two(g) ==
    [g EXCEPT !.position = IF g.position >= 2 THEN g.position - 2 ELSE g.position - 1]

\* advance_cursor on the first audit at or after the bookmark: one slot back.
advance_cursor_rewind(g) == [g EXCEPT !.position = g.position - 1]

\* sync up to the call of advance_cursor: the bookmark, then the feed, opened at
\* the stored cursor when there is one.
AuditSyncStart ==
    /\ pc = "created"
    /\ stream \in AuditStreams
    /\ ~get_bookmark_fails(state, stream)
    /\ bookmark' = get_bookmark(state, stream)
    /\ LET cursor_bookmark == singer_get_bookmark(state, stream, "cursor_value")
       IN  IF cursor_bookmark /= None
           THEN /\ gen' = audits_cursor(audit_pages, cursor_bookmark)
                /\ request' = [made |-> TRUE, cursor |-> cursor_bookmark]
           ELSE /\ gen' = audits(audit_pages)
                /\ request' = [made |-> TRUE, cursor |-> None]
    /\ pc' = "advance"
    /\ UNCHANGED <<schema, mdata, stream, state, remote, audit_pages, run, feed, position, emitted,
                   start, writes, log>>

\* One turn of the loop of advance_cursor.
AdvanceCursor ==
    /\ pc = "advance"
    /\ stream \in AuditStreams
    /\ ~gen_exhausted(audit_pages, gen)
    /\ LET g == gen_next(audit_pages, gen)
           audit == gen_current(g)
       IN  /\ state' = update_cursor_bookmark(state, stream, g)
           /\ IF advance_cursor_older(audit, bookmark)
              THEN gen' = g /\ pc' = "advance"
              ELSE gen' = advance_cursor_rewind(g) /\ pc' = "loop"
    /\ UNCHANGED <<schema, mdata, stream, remote, audit_pages, run, bookmark, feed, position,
                   emitted, start, request, writes, log>>

\* The loop of advance_cursor ends with every audit older than the bookmark.
AdvanceCursorExhausted ==
    /\ pc = "advance"
    /\ stream \in AuditStreams
    /\ gen_exhausted(audit_pages, gen)
    /\ pc' = "loop"
    /\ UNCHANGED <<schema, mdata, stream, state, remote, audit_pages, run, bookmark, feed, position,
                   gen, emitted, start, request, writes, log>>

\* One turn of the for loop of sync: the cursor, the bookmark, the yield.
AuditSyncNext ==
    /\ pc \in {"loop", "yielded"}
    /\ stream \in AuditStreams
    /\ ~gen_exhausted(audit_pages, gen)
    /\ LET g == gen_next(audit_pages, gen)
           audit == gen_current(g)
       IN  /\ gen' = g
           /\ state' = update_bookmark(update_cursor_bookmark(state, stream, g),
                                       stream, audit.ts)
           /\ emitted' = Append(emitted, audit)
    /\ writes' = writes + 1
    /\ pc' = "yielded"
    /\ UNCHANGED <<schema, mdata, stream, remote, audit_pages, run, bookmark, feed, position, start,
                   request, log>>

AuditSyncDone ==
    /\ pc \in {"loop", "yielded"}
    /\ stream \in AuditStreams
    /\ gen_exhausted(audit_pages, gen)
    /\ pc' = "done"
    /\ UNCHANGED <<schema, mdata, stream, state, remote, audit_pages, run, bookmark, feed, position,
                   gen, emitted, start, request, writes, log>>

(***************************************************************************)
(* Tags.sync: no generator, the call itself asks the remote for the tags   *)
(* and returns what it answers.  `emitted` is the collection returned.     *)
(***************************************************************************)
\* Tags.sync reading a bookmark of its own before it asks.
tags_sync_bookmarked(st, coll) ==
    IF Parses(st["tags"]["updated_at"])
    THEN incremental(coll, strptime_with_tz(st["tags"]["updated_at"]))
    ELSE <<>>

\* The value Tags.sync(state) returns.
tags_sync(st, coll) == collection(coll)

TagsSync ==
    /\ stream \in FullTableStreams
    /\ \/ pc = "idle" /\ run = "none" /\ run' = "first"
       \/ pc \in Finished /\ run = "first" /\ run' = "resumed"
    /\ log' = IF pc = "idle" THEN log
              ELSE Append(log, [start |-> start, emitted |-> emitted, outcome |-> pc])
    /\ emitted' = tags_sync(state, remote)
    /\ request' = [made |-> TRUE, cursor |-> None]
    /\ pc' = "done"
    /\ UNCHANGED <<schema, mdata, stream, state, remote, audit_pages, bookmark, feed,
                   position, gen, start, writes>>

(***************************************************************************)
(* What ends a sync early.                                                  *)
(***************************************************************************)
\* The remote client raises while the feed is read: the error leaves sync.
RemoteError ==
    /\ pc \in {"loop", "advance", "yielded"}
    /\ pc' = "failed"
    /\ UNCHANGED <<schema, mdata, stream, state, remote, audit_pages, run, bookmark, feed, position,
                   gen, emitted, start, request, writes, log>>

\* The consumer asks for no further record.
Halt ==
    /\ pc \in {"created", "yielded"}
    /\ pc' = "halted"
    /\ UNCHANGED <<schema, mdata, stream, state, remote, audit_pages, run, bookmark, feed, position,
                   gen, emitted, start, request, writes, log>>

Next ==
    \/ Sync
    \/ BookmarkParseFailure
    \/ TimestampSyncStart
    \/ TimestampSyncNext
    \/ ManualSyncStart
    \/ ManualSyncNext
    \/ CollectionSyncDone
    \/ AuditSyncStart
    \/ AdvanceCursor
    \/ AdvanceCursorExhausted
    \/ AuditSyncNext
    \/ AuditSyncDone
    \/ TagsSync
    \/ RemoteError
    \/ Halt

Spec == Init /\ [][Next]_vars

(***************************************************************************)
(* Stream.load_metadata                                                     *)
(***************************************************************************)
\* The field names a schema may hold.
Fields == {"id", "name", "count", "updated_at"}

\* load_metadata testing each field against the stream's own key_properties.
load_metadata_own_keys(name, sch) ==
    [loaded |-> TRUE,
     table_key_properties |-> key_properties(name),
     forced_replication_method |-> replication_method(name),
     inclusion |-> [field_name \in sch |->
                       IF field_name \in key_properties(name) THEN "automatic"
                       ELSE "available"]]

\* load_metadata: the table-level entries, then one inclusion per field of the
\* schema, tested against the module's KEY_PROPERTIES.
load_metadata(name, sch) ==
    [loaded |-> TRUE,
     table_key_properties |-> key_properties(name),
     forced_replication_method |-> replication_method(name),
     inclusion |-> [field_name \in sch |->
                       IF field_name \in KEY_PROPERTIES THEN "automatic"
                       ELSE "available"]]

InitMetadata ==
    /\ stream \in STREAMS
    /\ schema \in SUBSET Fields
    /\ mdata = NoMetadata
    /\ state = InitState(None, None)
    /\ remote = <<>>
    /\ audit_pages = <<>>
    /\ InitCommon

LoadMetadata ==
    /\ ~mdata.loaded
    /\ mdata' = load_metadata(stream, schema)
    /\ UNCHANGED <<schema, stream, state, remote, audit_pages, run, pc, bookmark, feed,
                   position, gen, emitted, start, request, writes, log>>

NextMetadata == LoadMetadata

SpecMetadata == InitMetadata /\ [][NextMetadata]_vars

TypeOK ==
    /\ stream \in STREAMS
    /\ run \in {"none"} \cup Runs
    /\ pc \in {"idle", "created", "loop", "advance", "yielded"} \cup Finished
    /\ writes \in Nat
    /\ Len(log) <= 1

(***************************************************************************)
(* What the claims speak of.                                                *)
(***************************************************************************)
\* The instants of the records do not decrease along the sequence.
NonDecreasing(recs) ==
    \A i \in 1..(Len(recs) - 1) :
        strptime_with_tz(recs[i].ts) <= strptime_with_tz(recs[i + 1].ts)

Ids(recs) == {recs[i].id : i \in 1..Len(recs)}

CollectionStreams == TimestampStreams \cup ManualStreams

\* The generator has run: the bookmark was read and the request made.
Started == pc \in {"loop", "advance", "yielded", "done"} \/ (pc \in Finished /\ request.made)

C2_ManualFilter ==
    (stream \in ManualStreams /\ Started)
    => /\ \A i \in 1..position :
              (feed[i] \in {emitted[j] : j \in 1..Len(emitted)})
              <=> strptime_with_tz(feed[i].ts) >= strptime_with_tz(start)
       /\ Ids(emitted) \subseteq {feed[i].id : i \in 1..position}

\* A record older than the starting bookmark was passed over, and a record was
\* emitted although an earlier record had moved the stored bookmark past it.
C2_Witness ==
    /\ stream \in ManualStreams
    /\ pc = "yielded"
    /\ Len(emitted) = 2
    /\ position = 3
    /\ strptime_with_tz(emitted[2].ts) < strptime_with_tz(emitted[1].ts)
    /\ strptime_with_tz(emitted[2].ts) = strptime_with_tz(start)
    /\ \E i \in 1..position : strptime_with_tz(feed[i].ts) < strptime_with_tz(start)

(***************************************************************************)
(* C3. Every incremental stream, wherever sync stands: the stored bookmark *)
(* is the timestamp of the record emitted last, or the value it had when   *)
(* sync was called if none was emitted; and the bookmark has been written  *)
(* once per emitted record, never for a record passed over.                *)
(***************************************************************************)
C3_BookmarkIsLastEmitted ==
    (stream \in IncrementalStreams /\ pc /= "idle")
    => /\ stored_bookmark(state, stream) =
              IF emitted = <<>> THEN start ELSE emitted[Len(emitted)].ts
       /\ writes = Len(emitted)

\* A remote error left a sync that had emitted records after passing one over.
C3_Witness ==
    /\ pc = "failed"
    /\ stream \in ManualStreams
    /\ Len(emitted) >= 1
    /\ position > Len(emitted)
    /\ stored_bookmark(state, stream) /= start

\* A sync of the audit stream was stopped between two audits.
C3_WitnessAudits ==
    /\ pc = "halted"
    /\ stream \in AuditStreams
    /\ Len(emitted) >= 2
    /\ stored_bookmark(state, stream) = emitted[Len(emitted)].ts

(***************************************************************************)
(* C4. Timestamp-filtered and manual-filter streams: a sync stopped by the *)
(* consumer, then a sync run to its end from the state left behind against *)
(* the same remote data, have between them emitted every remote record at  *)
(* or after the bookmark the first started from.  (For a timestamp-        *)
(* filtered stream the remote is taken at its word: it answers in          *)
(* ascending order.)                                                        *)
(***************************************************************************)
Ascending(coll) ==
    \A i \in 1..(Len(coll) - 1) : strptime_with_tz(coll[i]) <= strptime_with_tz(coll[i + 1])

C4_AtLeastOnce ==
    ( /\ stream \in CollectionStreams
      /\ pc = "done"
      /\ Len(log) = 1
      /\ log[1].outcome = "halted"
      /\ Parses(log[1].start)
      /\ (stream \in TimestampStreams => Ascending(remote)) )
    => \A i \in 1..Len(remote) :
          strptime_with_tz(remote[i]) >= strptime_with_tz(log[1].start)
          => i \in Ids(log[1].emitted) \cup Ids(emitted)

(***************************************************************************)
(* C5. TicketAudits: the reconciliation pass leaves the generator on the   *)
(* first audit, in the order it visits them, that is at or after the       *)
(* stored bookmark, and that audit is the first the forward loop emits:    *)
(* for a page [T-3, T-2, T-1, T, T+1] and a bookmark equal to one of       *)
(* them, the audit of that timestamp.                                      *)
(***************************************************************************)
RECURSIVE VisitFrom(_, _)
VisitFrom(pages, p) ==
    IF p > Len(pages) THEN <<>> ELSE PageRecords(pages, p) \o VisitFrom(pages, p + 1)

\* The audits in the order the generator opened by this sync visits them.
Visited == VisitFrom(audit_pages, IF request.cursor = None THEN 1 ELSE request.cursor)

\* The place of the first record at or after `since`, 0 when there is none.
FirstAtOrAfter(recs, since) ==
    LET hits == {i \in 1..Len(recs) : strptime_with_tz(recs[i].ts) >= since}
    IN  IF hits = {} THEN 0 ELSE CHOOSE i \in hits : \A j \in hits : i <= j

C5_Positioning ==
    (stream \in AuditStreams /\ pc \in {"loop", "yielded", "done"} /\ request.made)
    => LET k == FirstAtOrAfter(Visited, strptime_with_tz(start))
       IN  /\ (emitted /= <<>>) => (k > 0 /\ emitted[1] = Visited[k])
           /\ (emitted = <<>> /\ pc = "loop" /\ k > 0)
              => /\ ~gen_exhausted(audit_pages, gen)
                 /\ gen_current(gen_next(audit_pages, gen)) = Visited[k]

\* The page is [T-3, T-2, T-1, T, T+1] for T = 3, the bookmark T-1, and the
\* forward loop has emitted the audit of T-1 first, and T after it.
C5_Witness ==
    /\ stream \in AuditStreams
    /\ audit_pages = <<Interval(0, 4)>>
    /\ strptime_with_tz(start) = 2
    /\ pc = "yielded"
    /\ Len(emitted) = 2
    /\ emitted[1] = [id |-> 3, ts |-> TsStr(2, 0)]
    /\ emitted[2] = [id |-> 4, ts |-> TsStr(3, 0)]

(***************************************************************************)
(* C6. TicketAudits: after every turn of the reconciliation pass and of    *)
(* the forward loop, at each comparison and at each emitted audit, the     *)
(* stored cursor_value is the generator's before_cursor.                   *)
(***************************************************************************)
C6_CursorPersisted ==
    ( /\ stream \in AuditStreams
      /\ \/ pc \in {"loop", "yielded"}
         \/ pc = "advance" /\ gen.position >= 1 )
    => singer_get_bookmark(state, stream, "cursor_value") = gen.before_cursor

\* The reconciliation pass has moved to the second page, and the cursor of that
\* page is in the state before any audit is emitted.
C6_Witness ==
    /\ stream \in AuditStreams
    /\ pc = "advance"
    /\ run = "first"
    /\ gen.page = 2
    /\ gen.position = 1
    /\ emitted = <<>>
    /\ singer_get_bookmark(state, stream, "cursor_value") = Token(2)

(***************************************************************************)
(* C7. TicketAudits: a sync stopped during the reconciliation pass or      *)
(* between two audits, then a sync run to its end from the stored          *)
(* created_at and cursor_value, leave no audit of the feed unemitted that  *)
(* is at or after the stored created_at and was not emitted before the     *)
(* stop.                                                                    *)
(***************************************************************************)
\* Every audit of the feed.
AllAudits == VisitFrom(audit_pages, 1)

C7_CrashSafeResumption ==
    ( /\ stream \in AuditStreams
      /\ pc = "done"
      /\ Len(log) = 1
      /\ log[1].outcome \in {"halted", "failed"}
      /\ Parses(start) )
    => \A i \in 1..Len(AllAudits) :
          ( /\ strptime_with_tz(AllAudits[i].ts) >= strptime_with_tz(start)
            /\ AllAudits[i].id \notin Ids(log[1].emitted) )
          => AllAudits[i].id \in Ids(emitted)

(***************************************************************************)
(* C8. Every incremental stream: a write of the replication-key bookmark   *)
(* never stores a timestamp earlier than the one it replaces.  (For a      *)
(* timestamp-filtered stream the remote is taken at its word: it answers   *)
(* in ascending order.)                                                     *)
(***************************************************************************)
C8_MonotonicWrites ==
    [][ ( /\ stream \in IncrementalStreams
          /\ (stream \in TimestampStreams => Ascending(remote))
          /\ Parses(stored_bookmark(state, stream))
          /\ stored_bookmark(state, stream)' /= stored_bookmark(state, stream) )
        => strptime_with_tz(stored_bookmark(state, stream)')
               >= strptime_with_tz(stored_bookmark(state, stream)) ]_vars

(***************************************************************************)
(* C9. Manual-filter streams: at every point of a sync the stored bookmark *)
(* is at or after the timestamp of every record emitted so far, in         *)
(* whatever order the remote returns the collection.                       *)
(***************************************************************************)
C9_BookmarkCoversEmitted ==
    (stream \in ManualStreams /\ Started)
    => \A j \in 1..Len(emitted) :
          strptime_with_tz(stored_bookmark(state, stream)) >= strptime_with_tz(emitted[j].ts)

(***************************************************************************)
(* C10. Organizations with no stored bookmark, the remote holding records  *)
(* of 2020-01-01 and 2020-01-02 (instants 0 and 1): the claim as made, a   *)
(* sync consumed to its end has emitted both in order and left the         *)
(* bookmark at the second.                                                  *)
(***************************************************************************)
TwoRecords == <<TsStr(0, 0), TsStr(1, 0)>>

C10_EmptyStateEmitsAll ==
    ( /\ stream = "organizations"
      /\ run = "first"
      /\ start = None
      /\ remote = TwoRecords
      /\ pc \in {"done", "failed"}
      /\ (pc = "failed" => ~request.made) )
    => /\ pc = "done"
       /\ emitted = Records(TwoRecords)
       /\ stored_bookmark(state, stream) = TwoRecords[2]

(***************************************************************************)
(* C10, amended.  Organizations started from a stored bookmark emits every *)
(* record the remote returns, in order, and leaves the bookmark at the     *)
(* last record's timestamp: both records of 2020-01-01 and 2020-01-02 when *)
(* the bookmark is not later than the first.  With no stored bookmark the  *)
(* sync makes no request, emits nothing and leaves the state as it was:    *)
(* its first next() fails.                                                  *)
(***************************************************************************)
C10_StoredBookmarkEmitsAll ==
    /\ (stream = "organizations" /\ pc = "done")
       => /\ emitted = feed
          /\ (feed /= <<>>) => stored_bookmark(state, stream) = feed[Len(feed)].ts
          /\ (remote = TwoRecords /\ strptime_with_tz(start) <= 0)
             => emitted = Records(TwoRecords)
    /\ (stream = "organizations" /\ start = None /\ run /= "none")
       => /\ pc \in {"created", "failed", "halted"}
          /\ emitted = <<>>
          /\ ~request.made
          /\ stored_bookmark(state, stream) = None

\* The two records were emitted in order from a bookmark written without offset,
\* and the bookmark stands at the second.
C10_Witness ==
    /\ stream = "organizations"
    /\ run = "first"
    /\ start = TsStr(0, 1)
    /\ remote = TwoRecords
    /\ pc = "done"
    /\ emitted = Records(TwoRecords)
    /\ stored_bookmark(state, stream) = TsStr(1, 0)

\* With no stored bookmark the first next() has failed.
C10_WitnessEmptyState ==
    /\ stream = "organizations"
    /\ start = None
    /\ remote = TwoRecords
    /\ pc = "failed"

(***************************************************************************)
(* C11. Every incremental stream: when the stored replication-key entry is *)
(* missing or does not parse, a sync that is consumed fails before any     *)
(* request is made to the remote, emits nothing, starts from no default    *)
(* time, and leaves the state as it was.                                   *)
(***************************************************************************)
C11_BadBookmarkFatal ==
    /\ []( ( /\ stream \in IncrementalStreams
             /\ run /= "none"
             /\ ~Parses(start) )
           => /\ pc \in {"created", "failed", "halted"}
              /\ ~request.made
              /\ emitted = <<>>
              /\ writes = 0
              /\ feed = <<>>
              /\ gen = NoGen
              /\ stored_bookmark(state, stream) = start )
    /\ [][ ( /\ stream \in IncrementalStreams
             /\ ~Parses(stored_bookmark(state, stream)) )
           => /\ state' = state
              /\ (pc = "created" /\ pc' /= "created") => pc' \in {"failed", "halted"} ]_vars

\* The audit stream holds a created_at that does not parse, and the first next()
\* of its sync has failed.
C11_Witness ==
    /\ stream \in AuditStreams
    /\ run = "first"
    /\ start = Malformed
    /\ pc = "failed"
    /\ ~request.made
    /\ Len(AllAudits) >= 2

\* A manual-filter stream with no stored entry has failed the same way.
C11_WitnessMissing ==
    /\ stream \in ManualStreams
    /\ start = None
    /\ pc = "failed"
    /\ Len(remote) >= 2

(***************************************************************************)
(* C12. Tags: whatever the state holds, sync returns the whole remote      *)
(* collection, the same for any two states; it fails on no stored value,   *)
(* leaves the state as it was, and the stream has no key property.         *)
(***************************************************************************)
C12_TagsStateIndependent ==
    /\ []( stream \in FullTableStreams
           => /\ key_properties(stream) = {}
              /\ pc \in {"idle", "done"}
              /\ (run /= "none")
                 => /\ emitted = Records(remote)
                    /\ \A b \in Bookmarks(MaxTime), own \in Bookmarks(MaxTime) :
                          tags_sync([InitState(b, None) EXCEPT ![stream]["updated_at"] = own],
                                    remote) = emitted )
    /\ [][ (stream \in FullTableStreams) => (state' = state) ]_vars

\* Tags was synced twice from a state whose entries do not parse, and returned
\* the three tags of the remote both times.
C12_Witness ==
    /\ stream \in FullTableStreams
    /\ run = "resumed"
    /\ state[stream]["updated_at"] = Malformed
    /\ state["users"]["updated_at"] = None
    /\ Len(remote) = 3
    /\ emitted = Records(remote)
    /\ log[1].emitted = emitted

(***************************************************************************)
(* C13. load_metadata: a field of the schema is tagged automatic exactly   *)
(* when it is one of the stream's key_properties, and available otherwise; *)
(* the table-level entry carries the stream's key_properties and its       *)
(* replication_method; for Tags the table-level key properties are empty   *)
(* and no field is tagged automatic.                                       *)
(***************************************************************************)
C13_InclusionByKeyProperties ==
    mdata.loaded
    => /\ \A field_name \in schema :
              mdata.inclusion[field_name] =
                  IF field_name \in key_properties(stream) THEN "automatic" ELSE "available"
       /\ mdata.table_key_properties = key_properties(stream)
       /\ mdata.forced_replication_method = replication_method(stream)
       /\ (stream = "tags")
          => /\ mdata.table_key_properties = {}
             /\ \A field_name \in schema : mdata.inclusion[field_name] /= "automatic"

(***************************************************************************)
(* C14. TicketAudits: a sync consumed to its end, over any number of       *)
(* pages, has emitted no audit older than the created_at bookmark read     *)
(* when it started.                                                         *)
(***************************************************************************)
C14_NoOlderAuditEmitted ==
    (stream \in AuditStreams /\ pc = "done" /\ request.made)
    => \A j \in 1..Len(emitted) :
          strptime_with_tz(emitted[j].ts) >= strptime_with_tz(start)

(***************************************************************************)
(* C15. TicketAudits: a sync consumed to its end has emitted every audit   *)
(* of the feed it opened that is at or after the bookmark it started from, *)
(* and none twice; also when the first audit visited is already at or      *)
(* after the bookmark, and when every audit is older and no rewind is      *)
(* made.  (The feed of a sync is the one its request opened: the audits of *)
(* the pages before a stored cursor are C7's.)                             *)
(***************************************************************************)
C15_NoOverSkipNoDuplicate ==
    (stream \in AuditStreams /\ pc = "done" /\ request.made)
    => /\ \A i \in 1..Len(Visited) :
              strptime_with_tz(Visited[i].ts) >= strptime_with_tz(start)
              => Visited[i].id \in Ids(emitted)
       /\ \A j \in 1..Len(emitted) : \A k \in 1..Len(emitted) :
              emitted[j].id = emitted[k].id => j = k
       /\ (\A i \in 1..Len(Visited) :
              strptime_with_tz(Visited[i].ts) < strptime_with_tz(start))
          => emitted = <<>>

\* Two pages, the bookmark at the second audit of the second page: the pass went
\* over the first page and one audit of the second, and the rest was emitted.
C15_Witness ==
    /\ stream \in AuditStreams
    /\ run = "first"
    /\ pc = "done"
    /\ audit_pages = <<Interval(0, 1), Interval(2, 4)>>
    /\ strptime_with_tz(start) = 3
    /\ emitted = <<[id |-> 4, ts |-> TsStr(3, 0)], [id |-> 5, ts |-> TsStr(4, 0)]>>

\* The first audit visited is at the bookmark: the whole feed was emitted.
C15_WitnessFirst ==
    /\ stream \in AuditStreams
    /\ pc = "done"
    /\ Len(Visited) >= 3
    /\ strptime_with_tz(Visited[1].ts) = strptime_with_tz(start)
    /\ emitted = Visited

\* Every audit is older than the bookmark: nothing was emitted.
C15_WitnessNoRewind ==
    /\ stream \in AuditStreams
    /\ pc = "done"
    /\ request.made
    /\ Len(Visited) >= 3
    /\ emitted = <<>>

(***************************************************************************)
(* C16. Every incremental stream: sync(state) called and nothing asked of  *)
(* it leaves the state as it was and makes no request.  Timestamp-filtered *)
(* and manual-filter streams: after k records were taken the bookmark was  *)
(* written k times, once for each record emitted and with its timestamp,   *)
(* and a consumer that takes no more causes no further write.              *)
(***************************************************************************)
C16_BookmarksAdvanceByIteration ==
    /\ []( (stream \in IncrementalStreams /\ pc = "created")
           => /\ ~request.made
              /\ writes = 0
              /\ emitted = <<>> )
    /\ []( (stream \in CollectionStreams /\ run /= "none") => writes = Len(emitted) )
    /\ [][ (stream \in IncrementalStreams)
           => /\ (pc' = "created" \/ pc' = "halted" \/ pc \in Finished)
                 => (state' = state /\ (pc' /= "created" => writes' = writes))
              /\ (stream \in CollectionStreams /\ pc' /= "created")
                 => /\ writes' \in {writes, writes + 1}
                    /\ (writes' = writes) => (state' = state)
                    /\ (writes' = writes) <=> (emitted' = emitted)
                    /\ (writes' = writes + 1)
                       => /\ Len(emitted') = Len(emitted) + 1
                          /\ stored_bookmark(state', stream) = emitted'[Len(emitted')].ts ]_vars

\* A manual-filter sync was stopped after two records were taken out of a
\* collection of which it had passed one over: two writes.
C16_Witness ==
    /\ stream \in ManualStreams
    /\ pc = "halted"
    /\ Len(emitted) = 2
    /\ writes = 2
    /\ position = 3
    /\ stored_bookmark(state, stream) /= start

\* A sync was called and dropped with nothing taken from it.
C16_WitnessUnconsumed ==
    /\ stream \in TimestampStreams
    /\ pc = "halted"
    /\ Parses(start)
    /\ ~request.made
    /\ Len(remote) >= 2
    /\ stored_bookmark(state, stream) = start

(***************************************************************************)
(* C17. A sync of a stream writes under the stream's own name alone: its   *)
(* replication-key entry, and cursor_value for TicketAudits; the entries   *)
(* of every other stream stay as they were.  update_bookmark writes        *)
(* state[name][replication_key] and nothing else, cursor_value of the same *)
(* stream included.                                                         *)
(***************************************************************************)
C17_StreamsIndependent ==
    /\ []( (stream \in IncrementalStreams)
           => \A v \in {TsStr(0, 0), TsStr(MaxAuditTime, 1)} :
                 LET after == update_bookmark(state, stream, v)
                 IN  /\ after[stream] = [state[stream] EXCEPT ![replication_key(stream)] = v]
                     /\ [after EXCEPT ![stream] = state[stream]] = state )
    /\ [][ /\ [state' EXCEPT ![stream] = state[stream]] = state
           /\ \A k \in Keys :
                 state'[stream][k] /= state[stream][k]
                 => \/ (stream \in IncrementalStreams /\ k = replication_key(stream))
                    \/ (stream \in AuditStreams /\ k = "cursor_value") ]_vars

\* A sync of users has moved its own bookmark, and the bookmark of organizations,
\* under the same key, is where it was.
C17_Witness ==
    /\ stream = "users"
    /\ pc = "yielded"
    /\ Parses(start)
    /\ state["users"]["updated_at"] /= start
    /\ state["organizations"]["updated_at"] = start
    /\ state["ticket-audits"]["created_at"] = start

\* A sync of the audit stream has written created_at and cursor_value, and the
\* other streams hold what they held.
C17_WitnessAudits ==
    /\ stream \in AuditStreams
    /\ pc = "yielded"
    /\ state[stream]["created_at"] /= start
    /\ state[stream]["cursor_value"] = Token(2)
    /\ state[stream]["updated_at"] = None
    /\ state["tickets"]["updated_at"] = start

(***************************************************************************)
(* C18. TicketAudits.sync opens the feed with audits(cursor=c) exactly     *)
(* when cursor_value holds a token c, and with audits() exactly when none  *)
(* is stored; the sync that follows another opens with the before_cursor   *)
(* the other persisted last.                                                *)
(***************************************************************************)
C18_FeedOpenedFromStoredCursor ==
    [][ (stream \in AuditStreams)
        => /\ (~request.made /\ request'.made)
              => LET c == singer_get_bookmark(state, stream, "cursor_value")
                 IN  /\ request'.cursor = c
                     /\ (c = None) => gen' = audits(audit_pages)
                     /\ (c /= None)
                        => /\ c \in {Token(p) : p \in 1..Len(audit_pages)}
                           /\ gen' = audits_cursor(audit_pages, c)
                           /\ gen'.before_cursor = c
           /\ (pc \in Finished /\ pc' = "created")
              => /\ state' = state
                 /\ (gen /= NoGen /\ (gen.position >= 1 \/ emitted /= <<>>))
                    => singer_get_bookmark(state, stream, "cursor_value") = gen.before_cursor
                 /\ singer_get_bookmark(state, stream, "cursor_value")
                        \in {None, gen.before_cursor}
           /\ (pc = "created" /\ pc' = "halted") => state' = state ]_vars

\* The sync that follows a sync stopped on the second page has opened the feed
\* with the token of that page.
C18_Witness ==
    /\ stream \in AuditStreams
    /\ run = "resumed"
    /\ pc = "advance"
    /\ request.made
    /\ request.cursor = Token(2)
    /\ gen = audits_cursor(audit_pages, Token(2))
    /\ Len(log[1].emitted) >= 1

\* The first sync, nothing stored, has opened the feed from its beginning.
C18_WitnessBeginning ==
    /\ stream \in AuditStreams
    /\ run = "first"
    /\ pc = "advance"
    /\ request.made
    /\ request.cursor = None
    /\ gen = audits(audit_pages)
    /\ Len(audit_pages) = 2

(***************************************************************************)
(* C19. TicketAudits: from the call of sync to the first audit emitted,    *)
(* created_at keeps the value it had at the call and cursor_value alone    *)
(* may be written; the reconciliation pass steps the generator back at     *)
(* most once, by one slot, and only on an audit at or after the bookmark.  *)
(***************************************************************************)
C19_ReconciliationFrame ==
    /\ []( (stream \in AuditStreams /\ run /= "none" /\ emitted = <<>>)
           => /\ stored_bookmark(state, stream) = start
              /\ state[stream]["updated_at"] = None )
    /\ [][ (stream \in AuditStreams /\ pc = "advance" /\ pc' \in {"advance", "loop"})
           => /\ \A k \in Keys \ {"cursor_value"} : state'[stream][k] = state[stream][k]
              /\ IF gen_exhausted(audit_pages, gen)
                 THEN gen' = gen /\ pc' = "loop"
                 ELSE LET g == gen_next(audit_pages, gen)
                      IN  IF strptime_with_tz(gen_current(g).ts) >= strptime_with_tz(start)
                          THEN /\ gen' = [g EXCEPT !.position = g.position - 1]
                               /\ pc' = "loop"
                          ELSE /\ gen' = g
                               /\ pc' = "advance" ]_vars
    /\ [][ (stream \in AuditStreams /\ pc \in {"loop", "yielded"} /\ pc' /= "created")
           => /\ pc' /= "advance"
              /\ (gen'.page = gen.page) => gen'.position >= gen.position
              /\ gen'.page >= gen.page ]_vars

\* The pass went over the first page and one audit of the second, wrote the
\* cursor of the second page, and stepped back on the audit at the bookmark:
\* created_at is where it was and nothing is emitted yet.
C19_Witness ==
    /\ stream \in AuditStreams
    /\ run = "first"
    /\ pc = "loop"
    /\ emitted = <<>>
    /\ gen.page = 2
    /\ gen.position = 1
    /\ Len(gen.values) >= 2
    /\ strptime_with_tz(gen.values[2].ts) = strptime_with_tz(start)
    /\ state[stream]["cursor_value"] = Token(2)
    /\ stored_bookmark(state, stream) = start

====
